---- MODULE Spec2Model ----
(***************************************************************************)
(* Model of finetune-1gpu.py: the prompt tokenization / label-masking      *)
(* pipeline (load_data.tokenize, load_data.generate_and_tokenize_prompt),  *)
(* the length filter (select_samples_by_len) and the checkpoint-resume /   *)
(* final-save steps of the training driver (train).                        *)
(*                                                                         *)
(* A prompt string is represented by the token sequence the tokenizer      *)
(* yields for it before truncation; the tokenizer itself (LlamaTokenizer)  *)
(* is external, always emits BOS first, and truncates to max_length.       *)
(***************************************************************************)
EXTENDS Integers, Sequences, FiniteSets, TLC

VARIABLES
    \* ---- load_data configuration (closure variables of tokenize / generate)
    cutoff_len, train_on_inputs, add_eos_token,
    \* ---- one call of generate_and_tokenize_prompt
    called,                 \* TRUE once generate_and_tokenize_prompt has run
    full_prompt,            \* tokens of the rendered full prompt
    user_prompt,            \* tokens of the rendered instruction-only prompt
    tokenized_full_prompt,  \* the returned example
    tokenized_user_prompt,  \* tokenize(user_prompt, add_eos_token)
    user_prompt_len,        \* the masked prefix length L
    \* ---- the mapped dataset and the length filter
    train_data, seq_min, seq_max, filtered_dataset, filtered,
    \* ---- the training driver
    pc, runs, base_model, output_dir, resume_path, resume_from_checkpoint,
    model, fresh, fs, stdout, trainer_resume, written

dataVars == <<cutoff_len, train_on_inputs, add_eos_token>>
callVars == <<called, full_prompt, user_prompt, tokenized_full_prompt,
              tokenized_user_prompt, user_prompt_len>>
filterVars == <<train_data, seq_min, seq_max, filtered_dataset, filtered>>
trainVars == <<pc, runs, base_model, output_dir, resume_path,
               resume_from_checkpoint, model, fresh, fs, stdout,
               trainer_resume, written>>
vars == <<dataVars, callVars, filterVars, trainVars>>

----------------------------------------------------------------------------
(* Bounds *)
MaxCutoff == 3      \* cutoff_len ranges over 1..MaxCutoff
MaxRaw == 4         \* longest untruncated tokenization of a prompt
MaxTokenId == 3     \* token ids after BOS range over EosTokenId..MaxTokenId
MaxData == 2        \* records mapped into train_data
FilterRawLen == 2   \* longest untruncated prompt of the filter's records
MaxWeight == 1      \* adapter weight values range over 0..MaxWeight
MaxRuns == 2        \* invocations of train

(* Program constants *)
BosTokenId == 1
EosTokenId == 2
IgnoreIndex == -100

Min(a, b) == IF a <= b THEN a ELSE b

Vocab == EosTokenId..MaxTokenId

\* Untruncated tokenizations: BOS followed by up to n-1 further tokens.
RawUpTo(n) ==
    { <<BosTokenId>> \o s : s \in UNION { [1..k -> Vocab] : k \in 0..(n - 1) } }

RawPrompts == RawUpTo(MaxRaw)

Ones(n) == [i \in 1..n |-> 1]

NoExample == [input_ids |-> <<>>, attention_mask |-> <<>>, labels |-> <<>>]

----------------------------------------------------------------------------
(* load_data.tokenize *)

\* tokenizer(prompt, truncation=True, max_length=cutoff_len, padding=False)
Tokenizer(prompt, max_length) ==
    LET n == Min(Len(prompt), max_length)
    IN  [input_ids |-> SubSeq(prompt, 1, n), attention_mask |-> Ones(n)]

AppendsEosMutant(ids, add_eos, cutoff) ==
    /\ ids[Len(ids)] # EosTokenId
    /\ Len(ids) <= cutoff
    /\ add_eos

\* the condition of the if on the truncated ids
AppendsEos(ids, add_eos, cutoff) ==
    /\ ids[Len(ids)] # EosTokenId
    /\ Len(ids) < cutoff
    /\ add_eos

Tokenize(prompt, add_eos, cutoff) ==
    LET result == Tokenizer(prompt, cutoff)
        app == AppendsEos(result.input_ids, add_eos, cutoff)
        ids == IF app THEN Append(result.input_ids, EosTokenId)
                      ELSE result.input_ids
        att == IF app THEN Append(result.attention_mask, 1)
                      ELSE result.attention_mask
    IN  [input_ids |-> ids, attention_mask |-> att, labels |-> ids]

----------------------------------------------------------------------------
(* load_data.generate_and_tokenize_prompt *)

\* user_prompt_len = len(tokenized_user_prompt["input_ids"]), minus 1 when the
\* add_eos_token flag is set
UserPromptLen(tokenized_user, add_eos) ==
    IF add_eos THEN Len(tokenized_user.input_ids) - 1
               ELSE Len(tokenized_user.input_ids)

MaskLabelsMutant(labels, L) ==
    [i \in 1..L |-> IgnoreIndex] \o SubSeq(labels, L + 2, Len(labels))

\* [-100] * user_prompt_len + labels[user_prompt_len:]
MaskLabels(labels, L) ==
    [i \in 1..L |-> IgnoreIndex] \o SubSeq(labels, L + 1, Len(labels))

MaskedMutant(toi) == TRUE

\* "if not train_on_inputs"
Masked(toi) == ~toi

DefaultAddEosMutant == FALSE

\* def tokenize(prompt, add_eos_token=True): the flag of tokenize(full_prompt)
DefaultAddEos == TRUE

\* The value returned for one record, with the intermediate values of the call.
GenerateAndTokenizePrompt(full, user, cutoff, toi, add_eos) ==
    LET tf == Tokenize(full, DefaultAddEos, cutoff)
        tu == Tokenize(user, add_eos, cutoff)
        L  == UserPromptLen(tu, add_eos)
    IN  IF Masked(toi)
        THEN [example |-> [tf EXCEPT !.labels = MaskLabels(tf.labels, L)],
              user |-> tu, len |-> L]
        ELSE [example |-> tf, user |-> NoExample, len |-> 0]

----------------------------------------------------------------------------
(* select_samples_by_len *)

length_filterMutant(sample, min_length, max_length) ==
    /\ min_length <= Len(sample.input_ids)
    /\ Len(sample.input_ids) < max_length

\* min_length <= len(sample['input_ids']) <= max_length
length_filter(sample, min_length, max_length) ==
    /\ min_length <= Len(sample.input_ids)
    /\ Len(sample.input_ids) <= max_length

RECURSIVE Filter(_, _, _)
Filter(dataset, min_length, max_length) ==
    IF dataset = <<>> THEN <<>>
    ELSE LET rest == Filter(Tail(dataset), min_length, max_length)
         IN  IF length_filter(Head(dataset), min_length, max_length)
             THEN <<Head(dataset)>> \o rest
             ELSE rest

----------------------------------------------------------------------------
(* The training driver: checkpoint files and adapter weights *)

Dirs == {"d1", "d2"}
NoneVal == "None"       \* resume_from_checkpoint: str = None
FalseVal == "False"     \* resume_from_checkpoint = False
AdapterKeys == {"lora_A", "lora_B"}
Weights == 0..MaxWeight
Adapters == [AdapterKeys -> Weights]

\* A saved state dict is a set of <<parameter name, value>> pairs.
EmptyStateDict == {}
NoFile == [exists |-> FALSE, data |-> EmptyStateDict]
File(sd) == [exists |-> TRUE, data |-> sd]
EmptyDir == [pytorch_model |-> NoFile, adapter_model |-> NoFile]

\* get_peft_model: lora_B starts at zero, lora_A at some initial value
FreshAdapters == { a \in Adapters : a["lora_B"] = 0 }

\* the adapter state dict written by model.save_pretrained
GetPeftModelStateDict(m) == { <<k, m[k]>> : k \in DOMAIN m }

\* set_peft_model_state_dict(model, adapters_weights): the keys present are
\* loaded, the others keep their value
SetPeftModelStateDict(m, sd) ==
    [k \in DOMAIN m |->
        IF \E p \in sd : p[1] = k
        THEN (CHOOSE p \in sd : p[1] = k)[2]
        ELSE m[k]]

\* os.path.exists / torch.load of os.path.join(dir, name)
Exists(files, dir, name) ==
    IF name = "pytorch_model.bin" THEN files[dir].pytorch_model.exists
                                  ELSE files[dir].adapter_model.exists
TorchLoad(files, dir, name) ==
    IF name = "pytorch_model.bin" THEN files[dir].pytorch_model.data
                                  ELSE files[dir].adapter_model.data

ResumeFlagMutant(files, path) == path

\* the full checkpoint is looked for first; when it is missing the adapter
\* file is tried and resume_from_checkpoint becomes False
CheckpointName(files, path) ==
    IF Exists(files, path, "pytorch_model.bin") THEN "pytorch_model.bin"
                                                ELSE "adapter_model.bin"
ResumeFlag(files, path) ==
    IF Exists(files, path, "pytorch_model.bin") THEN path ELSE FalseVal

\* model.save_pretrained(output_dir); torch.save({}, pytorch_model_path)
SavePretrained(files, dir, m) ==
    [files EXCEPT ![dir].adapter_model = File(GetPeftModelStateDict(m))]
TorchSaveEmpty(files, dir) ==
    [files EXCEPT ![dir].pytorch_model = File(EmptyStateDict)]

NotCalled == "not called"
NoModel == [k \in AdapterKeys |-> 0]

----------------------------------------------------------------------------
(* Initial states *)

InitData ==
    /\ cutoff_len \in 1..MaxCutoff
    /\ train_on_inputs \in BOOLEAN
    /\ add_eos_token \in BOOLEAN

InitCall ==
    /\ called = FALSE
    /\ full_prompt = <<>>
    /\ user_prompt = <<>>
    /\ tokenized_full_prompt = NoExample
    /\ tokenized_user_prompt = NoExample
    /\ user_prompt_len = 0

InitFilter ==
    /\ train_data = <<>>
    /\ seq_min = 0
    /\ seq_max = 0
    /\ filtered_dataset = <<>>
    /\ filtered = FALSE

InitTrainVars ==
    /\ pc = "idle"
    /\ runs = 0
    /\ base_model = ""
    /\ output_dir = NoneVal
    /\ resume_path = NoneVal
    /\ resume_from_checkpoint = NoneVal
    /\ model = NoModel
    /\ fresh = NoModel
    /\ stdout = <<>>
    /\ trainer_resume = NotCalled
    /\ written = {}

\* a directory is empty or holds an adapter saved by an earlier fine-tuning
InitDirs == {EmptyDir} \cup
            { [EmptyDir EXCEPT !.adapter_model = File(GetPeftModelStateDict(a))]
              : a \in Adapters }

Init ==
    /\ InitData /\ InitCall /\ InitFilter /\ InitTrainVars
    /\ fs = [d \in Dirs |-> EmptyDir]

FilterInit ==
    /\ cutoff_len \in 1..MaxCutoff
    /\ train_on_inputs \in BOOLEAN
    /\ add_eos_token = FALSE
    /\ InitCall /\ InitFilter /\ InitTrainVars
    /\ fs = [d \in Dirs |-> EmptyDir]

TrainInit ==
    /\ cutoff_len = MaxCutoff
    /\ train_on_inputs = FALSE
    /\ add_eos_token = FALSE
    /\ InitCall /\ InitFilter /\ InitTrainVars
    /\ fs \in [Dirs -> InitDirs]

----------------------------------------------------------------------------
(* Actions *)

\* generate_and_tokenize_prompt(data_point) on one record
CallGenerate ==
    /\ ~called
    /\ \E full \in RawPrompts, user \in RawPrompts :
        LET r == GenerateAndTokenizePrompt(full, user, cutoff_len,
                                           train_on_inputs, add_eos_token)
        IN  /\ called' = TRUE
            /\ full_prompt' = full
            /\ user_prompt' = user
            /\ tokenized_full_prompt' = r.example
            /\ tokenized_user_prompt' = r.user
            /\ user_prompt_len' = r.len
    /\ UNCHANGED <<dataVars, filterVars, trainVars>>

\* data["train"].map(generate_and_tokenize_prompt), one record at a time
MapRecord ==
    /\ ~filtered
    /\ Len(train_data) < MaxData
    /\ \E full \in RawUpTo(FilterRawLen), user \in RawUpTo(FilterRawLen) :
        train_data' = Append(train_data,
            GenerateAndTokenizePrompt(full, user, cutoff_len,
                                      train_on_inputs, add_eos_token).example)
    /\ UNCHANGED <<seq_min, seq_max, filtered_dataset, filtered>>
    /\ UNCHANGED <<dataVars, callVars, trainVars>>

\* select_samples_by_len(train_data, seq_min, seq_max)
SelectSamplesByLen ==
    /\ ~filtered
    /\ \E mn \in 0..(MaxCutoff + 1), mx \in 0..(MaxCutoff + 1) :
        /\ seq_min' = mn
        /\ seq_max' = mx
        /\ filtered_dataset' = Filter(train_data, mn, mx)
    /\ filtered' = TRUE
    /\ UNCHANGED train_data
    /\ UNCHANGED <<dataVars, callVars, trainVars>>

\* train(...): from entry to get_peft_model
TrainStart ==
    /\ pc \in {"idle", "done", "raised"}
    /\ runs < MaxRuns
    /\ runs' = runs + 1
    /\ \E bm \in {"", "llama"}, od \in Dirs, rp \in Dirs \cup {NoneVal} :
        /\ base_model' = bm
        /\ output_dir' = od
        /\ resume_path' = rp
        /\ resume_from_checkpoint' = rp
        /\ IF bm = ""
           THEN /\ pc' = "raised"          \* assert base_model
                /\ UNCHANGED <<model, fresh>>
           ELSE /\ pc' = "resume"
                /\ \E f \in FreshAdapters : model' = f /\ fresh' = f
    /\ stdout' = <<>>
    /\ trainer_resume' = NotCalled
    /\ UNCHANGED <<fs, written>>
    /\ UNCHANGED <<dataVars, callVars, filterVars>>

\* the "if resume_from_checkpoint:" block
ResumeCheckpoint ==
    /\ pc = "resume"
    /\ pc' = "train"
    /\ IF resume_from_checkpoint # NoneVal
       THEN LET path == resume_from_checkpoint
                name == CheckpointName(fs, path)
            IN  /\ resume_from_checkpoint' = ResumeFlag(fs, path)
                /\ IF Exists(fs, path, name)
                   THEN /\ stdout' = Append(stdout, <<"Restarting from", path, name>>)
                        /\ model' = SetPeftModelStateDict(model, TorchLoad(fs, path, name))
                   ELSE /\ stdout' = Append(stdout, <<"not found", path, name>>)
                        /\ model' = model
       ELSE UNCHANGED <<resume_from_checkpoint, stdout, model>>
    /\ UNCHANGED <<runs, base_model, output_dir, resume_path, fresh, fs,
                   trainer_resume, written>>
    /\ UNCHANGED <<dataVars, callVars, filterVars>>

\* trainer.train(resume_from_checkpoint=resume_from_checkpoint): the external
\* training loop leaves the adapter at some trained value
TrainerTrain ==
    /\ pc = "train"
    /\ pc' = "save"
    /\ trainer_resume' = resume_from_checkpoint
    /\ model' \in Adapters
    /\ UNCHANGED <<runs, base_model, output_dir, resume_path,
                   resume_from_checkpoint, fresh, fs, stdout, written>>
    /\ UNCHANGED <<dataVars, callVars, filterVars>>

\* the end-of-training save sequence
SaveFinal ==
    /\ pc = "save"
    /\ pc' = "done"
    /\ fs' = TorchSaveEmpty(SavePretrained(fs, output_dir, model), output_dir)
    /\ written' = written \cup {output_dir}
    /\ UNCHANGED <<runs, base_model, output_dir, resume_path,
                   resume_from_checkpoint, model, fresh, stdout, trainer_resume>>
    /\ UNCHANGED <<dataVars, callVars, filterVars>>

----------------------------------------------------------------------------
(* Specifications *)

Next == CallGenerate
Spec == Init /\ [][Next]_vars

FilterNext == MapRecord \/ SelectSamplesByLen
FilterSpec == FilterInit /\ [][FilterNext]_vars

TrainNext == TrainStart \/ ResumeCheckpoint \/ TrainerTrain \/ SaveFinal
TrainSpec == TrainInit /\ [][TrainNext]_vars

----------------------------------------------------------------------------
(* Properties of generate_and_tokenize_prompt (Spec) *)

\* the truncated tokenization of a prompt, before any EOS is appended
Truncated(prompt) == SubSeq(prompt, 1, Min(Len(prompt), cutoff_len))

AllIgnored(labels) == \A i \in 1..Len(labels) : labels[i] = IgnoreIndex

\* C1: the returned example has one label and one attention value per
\* input id.
C1_SameLengths ==
    called =>
        /\ Len(tokenized_full_prompt.labels) = Len(tokenized_full_prompt.input_ids)
        /\ Len(tokenized_full_prompt.input_ids)
             = Len(tokenized_full_prompt.attention_mask)

\* C2: with masking, the labels before position L are all -100 and the
\* labels from position L on are the input ids (indices counted from 0 in
\* the claim, from 1 here).
C2_MaskedPrefix ==
    (called /\ ~train_on_inputs) =>
        LET L == user_prompt_len
            ids == tokenized_full_prompt.input_ids
            labels == tokenized_full_prompt.labels
        IN  /\ L <= Len(labels)
            /\ \A i \in 1..L : labels[i] = IgnoreIndex
            /\ \A i \in (L + 1)..Len(ids) :
                   i <= Len(labels) /\ labels[i] = ids[i]
            /\ \A i \in (L + 1)..Len(labels) :
                   i <= Len(ids) /\ labels[i] = ids[i]

C2_Witness ==
    /\ called /\ ~train_on_inputs
    /\ user_prompt_len >= 1
    /\ Len(tokenized_full_prompt.input_ids) >= user_prompt_len + 2

\* whether tokenize appended an EOS to the instruction-only prefix
UserEosAppended ==
    Len(tokenized_user_prompt.input_ids) = Len(Truncated(user_prompt)) + 1

\* C3: L is the length of the tokenized prefix, less one exactly when an
\* EOS was appended to that prefix.
C3_PrefixLength ==
    (called /\ ~train_on_inputs) =>
        user_prompt_len = Len(tokenized_user_prompt.input_ids)
                            - (IF UserEosAppended THEN 1 ELSE 0)

\* C4: when L exceeds the number of input ids, every label is -100 and there
\* is one label per input id.
C4_OverlongPrefix ==
    (called /\ ~train_on_inputs
       /\ user_prompt_len > Len(tokenized_full_prompt.input_ids)) =>
        /\ AllIgnored(tokenized_full_prompt.labels)
        /\ Len(tokenized_full_prompt.labels)
             = Len(tokenized_full_prompt.input_ids)

\* C5: without masking, the labels are the input ids.
C5_UnmaskedLabels ==
    (called /\ train_on_inputs) =>
        /\ tokenized_full_prompt.labels = tokenized_full_prompt.input_ids
        /\ \A i \in 1..Len(tokenized_full_prompt.labels) :
               tokenized_full_prompt.labels[i] # IgnoreIndex

C5_Witness ==
    /\ called /\ train_on_inputs
    /\ Len(tokenized_full_prompt.input_ids) >= 2
    /\ Len(user_prompt) >= 2

\* what the claim says of one tokenize(prompt, add_eos) result
EosRule(prompt, add_eos, res) ==
    LET t == Truncated(prompt)
        due == add_eos /\ t[Len(t)] # EosTokenId /\ Len(t) < cutoff_len
    IN  /\ Len(res.input_ids) <= cutoff_len
        /\ Len(res.attention_mask) = Len(res.input_ids)
        /\ due => /\ res.input_ids = Append(t, EosTokenId)
                  /\ res.attention_mask[Len(res.attention_mask)] = 1
        /\ ~due => res.input_ids = t
        /\ Len(t) = cutoff_len => res.input_ids = t

\* C6: tokenize appends EOS (attention 1) exactly when add_eos is set, the
\* last token is not EOS and the sequence is shorter than cutoff_len; no
\* result is longer than cutoff_len.
C6_EosAppend ==
    called =>
        /\ EosRule(full_prompt, TRUE, tokenized_full_prompt)
        /\ ~train_on_inputs =>
               EosRule(user_prompt, add_eos_token, tokenized_user_prompt)

C6_Witness ==
    /\ called /\ ~train_on_inputs /\ add_eos_token
    /\ Len(full_prompt) = cutoff_len
    /\ full_prompt[Len(full_prompt)] # EosTokenId
    /\ tokenized_full_prompt.input_ids = full_prompt
    /\ Len(user_prompt) < cutoff_len
    /\ tokenized_user_prompt.input_ids = Append(user_prompt, EosTokenId)

\* the truncated full prompt leaves room for an EOS and does not end in one
FullPromptShort ==
    LET t == Truncated(full_prompt)
    IN  Len(t) < cutoff_len /\ t[Len(t)] # EosTokenId

\* C10 as claimed: whatever add_eos_token is, a short full prompt gets an EOS
\* appended, and with masking the label at that position is the EOS id.
C10_EosLabelKept ==
    (called /\ FullPromptShort) =>
        LET ids == tokenized_full_prompt.input_ids
            labels == tokenized_full_prompt.labels
        IN  /\ ids = Append(Truncated(full_prompt), EosTokenId)
            /\ ~train_on_inputs => labels[Len(ids)] = EosTokenId

\* C10 as amended: the label at the EOS position is the EOS id exactly when
\* the prefix length L is smaller than the number of input ids, and -100
\* otherwise.
C10_EosLabelUnlessMasked ==
    (called /\ FullPromptShort) =>
        LET ids == tokenized_full_prompt.input_ids
            labels == tokenized_full_prompt.labels
        IN  /\ ids = Append(Truncated(full_prompt), EosTokenId)
            /\ train_on_inputs => labels[Len(ids)] = EosTokenId
            /\ ~train_on_inputs =>
                 /\ Len(ids) <= Len(labels)
                 /\ labels[Len(ids)] =
                      (IF user_prompt_len < Len(ids) THEN EosTokenId
                                                     ELSE IgnoreIndex)

C10_Witness ==
    /\ called /\ FullPromptShort
    /\ ~add_eos_token /\ ~train_on_inputs
    /\ user_prompt_len < Len(tokenized_full_prompt.input_ids)
    /\ tokenized_full_prompt.labels[Len(tokenized_full_prompt.input_ids)]
         = EosTokenId

----------------------------------------------------------------------------
(* Properties of select_samples_by_len (FilterSpec) *)

InRange(sample) ==
    seq_min <= Len(sample.input_ids) /\ Len(sample.input_ids) <= seq_max

\* positions of train_data whose example is within [seq_min, seq_max]
Kept == { i \in 1..Len(train_data) : InRange(train_data[i]) }

\* the k-th smallest position of Kept
KthKept(k) == CHOOSE i \in Kept : Cardinality({ j \in Kept : j <= i }) = k

FilterResultExact ==
    /\ Len(filtered_dataset) = Cardinality(Kept)
    /\ \A k \in 1..Len(filtered_dataset) :
           filtered_dataset[k] = train_data[KthKept(k)]

\* C7: the result holds exactly the examples with seq_min <= len(input_ids)
\* <= seq_max, in their input order, and the input dataset is unchanged.
C7_FilterExact ==
    /\ [](filtered => FilterResultExact)
    /\ [][(~filtered /\ filtered') => train_data' = train_data]_vars

C7_Witness ==
    /\ filtered
    /\ Len(train_data) = 2
    /\ Len(train_data[1].input_ids) = seq_max + 1
    /\ Len(train_data[2].input_ids) = seq_min
    /\ filtered_dataset = <<train_data[2]>>

----------------------------------------------------------------------------
(* Properties of the checkpoint resume (TrainSpec) *)

\* resume_from_checkpoint names a directory holding neither weight file
\* (the files of the run are untouched until the final save)
MissingCheckpoint ==
    /\ resume_path \in Dirs
    /\ ~Exists(fs, resume_path, "pytorch_model.bin")
    /\ ~Exists(fs, resume_path, "adapter_model.bin")

\* C8: with neither file present the driver reports the missing checkpoint,
\* does not raise, keeps the fresh adapter and calls trainer.train with
\* resume_from_checkpoint False.
C8_MissingCheckpoint ==
    /\ (pc = "train" /\ MissingCheckpoint) =>
          /\ stdout = << <<"not found", resume_path, "adapter_model.bin">> >>
          /\ model = fresh
          /\ resume_from_checkpoint = FalseVal
    /\ (pc = "save" /\ MissingCheckpoint) =>
          /\ trainer_resume = FalseVal
          /\ stdout = << <<"not found", resume_path, "adapter_model.bin">> >>

C8_Witness ==
    /\ pc = "save" /\ MissingCheckpoint
    /\ trainer_resume = FalseVal

\* C9: after the resume step on a directory written by the final save
\* sequence, the model holds the adapter weights that save_pretrained wrote
\* there (whichever of the two weight files the resume step reads).
C9_ResumeLoadsSaved ==
    (pc = "train" /\ resume_path \in written) =>
        GetPeftModelStateDict(model) = fs[resume_path].adapter_model.data

====
